---- MODULE Spec2Model ----
(***************************************************************************)
(* Model of the sparse voxel store generated by make_world! (src/src/lib.rs) *)
(* World -> Chunk -> Subchunk -> Section, with chunk persistence.            *)
(***************************************************************************)
EXTENDS Integers, Sequences, FiniteSets, TLC

VARIABLES
    chunks,     \* World.chunks: chunk position -> Option<Chunk>
    files,      \* "chunks/" directory: file name -> Option<byte sequence>
    dirty,      \* the chunk positions marked dirty (the World of lib.rs marks none)
    last,       \* the last call made on the World and what it returned
    nsets,      \* number of field writes issued so far
    nfaults     \* number of file-system / encoder faults injected so far

vars == <<chunks, files, dirty, last, nsets, nfaults>>

-----------------------------------------------------------------------------
(* The make_world! invocation that is modelled (a small world).            *)

CHUNK_WIDTH == 2
CHUNK_HEIGHT == 2
SUBCHUNK_DEPTH == 2
NUM_SUBCHUNKS == 2
CHUNK_DEPTH == SUBCHUNK_DEPTH * NUM_SUBCHUNKS

\* SectionField: Block = 1 (u8, 2 bits), Exposed = 2 (bool, 1 bit): the enum's tag + 1.
COUNT == 2
SectionField == 1..COUNT
BITS_PER_ITEM_TABLE == <<2, 1>>
\* the `$field_type` of each field: TRUE for bool, FALSE for u8
FIELD_IS_BOOL == <<FALSE, TRUE>>

bits(section_field) == BITS_PER_ITEM_TABLE[section_field]

-----------------------------------------------------------------------------
(* Bounds of the exploration.                                              *)

MaxSets == 2        \* field writes per run of a World that is never persisted
MaxStoreSets == 1   \* field writes per run of a World that is persisted
MaxFaults == 1      \* injected I/O or encoder failures per run
MaxCoord == 5       \* largest |x|, |y| of a position given to a coordinate function
MaxRadius == 2      \* largest small radius given to positions_in_square

\* A usize has 64 bits and a u32 has 32, more than an integer of TLC holds: a
\* usize is the tuple of its four base-2^16 digits and a u32 the tuple of its
\* two, lowest digit first (usize::MAX is <<65535, 65535, 65535, 65535>>, the
\* usize 5 is <<5, 0, 0, 0>>, u32::MAX is <<65535, 65535>>).
LIMB == 2^16
U8_MODULUS == 256
\* i32::MIN and i32::MAX, the ends of the integers of TLC
I32_MIN == -(2^30) - 2^30
I32_MAX == 2^30 + (2^30 - 1)

\* the u32 and the usize of a number n with 0 <= n < 2^31
u32_from_nat(n) == <<n % LIMB, n \div LIMB>>
usize_from_nat(n) == <<n % LIMB, n \div LIMB, 0, 0>>
\* u < v for two u32
u32_lt(u, v) == u[2] < v[2] \/ (u[2] = v[2] /\ u[1] < v[1])
\* the number a u32 below 2^31 stands for
u32_as_nat(u) == u[2] * LIMB + u[1]
\* usize::div_euclid by a divisor 0 < d < 2^15: long division from the top
\* digit down, r4, r3 and r2 are the remainders carried into the next digit
usize_div_euclid(u, d) ==
    LET r4 == u[4] % d
        r3 == (r4 * LIMB + u[3]) % d
        r2 == (r3 * LIMB + u[2]) % d
    IN  <<(r2 * LIMB + u[1]) \div d, (r3 * LIMB + u[2]) \div d,
          (r4 * LIMB + u[3]) \div d, u[4] \div d>>

\* the global positions a caller names: the last column of chunk (-1, 0) and
\* the first of chunk (0, 0), in the last row of both; the layer below the
\* chunk, one layer of each Subchunk (the upper of the first, the lower of the
\* last) and the layer above
ChunkPositions == {<<-1, 0>>, <<0, 0>>}
GlobalXs == (-1)..0
GlobalYs == {CHUNK_HEIGHT - 1}
GlobalZs == {-1, SUBCHUNK_DEPTH - 1, CHUNK_DEPTH - SUBCHUNK_DEPTH, CHUNK_DEPTH}
GlobalPositions == {<<x, y, z>> : x \in GlobalXs, y \in GlobalYs, z \in GlobalZs}

\* the arguments given to the coordinate functions
CoordPositions ==
    {<<x, y, z>> : x \in (-MaxCoord)..MaxCoord, y \in (-MaxCoord)..MaxCoord,
                   z \in (-1)..CHUNK_DEPTH}
CoordChunks == {<<x, y>> : x \in (-2)..2, y \in (-2)..2}
\* the origins given to positions_in_square: those, and two at the ends of
\* the i32 range, where origin + (x, y) leaves it
SquareOrigins ==
    CoordChunks \cup {<<I32_MAX, 0>>, <<0, I32_MIN>>}
\* small radii, the u32 that `as i32` turns into i32::MIN (2^31), and the two
\* largest values of a u32
Radii ==
    {u32_from_nat(r) : r \in 0..MaxRadius}
        \cup {<<0, LIMB \div 2>>, <<LIMB - 2, LIMB - 1>>, <<LIMB - 1, LIMB - 1>>}

-----------------------------------------------------------------------------
(* Option<T> and Result<T, E>.                                              *)

None == <<>>
Some(x) == <<x>>
is_none(o) == Len(o) = 0
is_some(o) == Len(o) = 1
unwrap(o) == o[1]

Ok(v) == [ok |-> TRUE, val |-> v]
Err(e) == [ok |-> FALSE, err |-> e]
Unit == <<>>

OutOfBounds(pos) == [cause |-> "OutOfBounds", pos |-> pos]
ChunkUnloaded(pos) == [cause |-> "ChunkUnloaded", pos |-> pos]
ChunkAlreadyLoaded(pos) == [cause |-> "ChunkAlreadyLoaded", pos |-> pos]

\* #[from] conversions into AccessError
AccessError_Bounds(e) == [variant |-> "Bounds", cause |-> e.cause, pos |-> e.pos]
AccessError_ChunkAccess(e) == [variant |-> "ChunkAccess", cause |-> e.cause, pos |-> e.pos]

-----------------------------------------------------------------------------
(* FieldType: the value <-> u64 codec.                                      *)

u8_from_u64(v) == v % U8_MODULUS
u8_to_u64(v) == v
\* variant: the comparison of the boolean conversion is inverted
bool_from_u64_inverted(v) == v = 0
\* variant: only 1 decodes as true
bool_from_u64_one_only(v) == v = 1
bool_from_u64(v) == v # 0
bool_to_u64(v) == IF v THEN 1 ELSE 0

from_u64(section_field, v) ==
    IF FIELD_IS_BOOL[section_field] THEN bool_from_u64(v) ELSE u8_from_u64(v)
to_u64(section_field, value) ==
    IF FIELD_IS_BOOL[section_field] THEN bool_to_u64(value) ELSE u8_to_u64(value)

\* the values of a field's type that fit the field's bit width
FieldValues(section_field) ==
    IF FIELD_IS_BOOL[section_field] THEN BOOLEAN
    ELSE 0..(2^bits(section_field) - 1)

-----------------------------------------------------------------------------
(* Section<CHUNK_WIDTH, CHUNK_HEIGHT, SUBCHUNK_DEPTH> (crate chroma).        *)

SubPositions ==
    {<<x, y, z>> : x \in 0..(CHUNK_WIDTH - 1), y \in 0..(CHUNK_HEIGHT - 1),
                   z \in 0..(SUBCHUNK_DEPTH - 1)}

Section_new(b) == [bits |-> b, data |-> [p \in SubPositions |-> 0]]
Section_in_bounds(pos) == pos \in SubPositions
Section_item(s, pos) ==
    IF Section_in_bounds(pos) THEN Ok(s.data[pos]) ELSE Err(OutOfBounds(pos))
Section_set_item(s, pos, value) ==
    IF Section_in_bounds(pos)
    THEN [self |-> [s EXCEPT !.data[pos] = value], res |-> Ok(Unit)]
    ELSE [self |-> s, res |-> Err(OutOfBounds(pos))]
Section_is_empty(s) == \A p \in SubPositions : s.data[p] = 0

-----------------------------------------------------------------------------
(* Subchunk.                                                                *)

Subchunk_default == [sections |-> [f \in SectionField |-> None]]

\* looks at the block-type slot only
Subchunk_is_empty_first_field(self) == is_none(self.sections[1])

Subchunk_is_empty(self) == \A f \in SectionField : is_none(self.sections[f])

Subchunk_item(self, section_field, pos) ==
    IF is_none(self.sections[section_field]) THEN Ok(0)
    ELSE Section_item(unwrap(self.sections[section_field]), pos)

\* variant: a non-default item already stored is kept, the write is dropped
Subchunk_set_item_keeps_stored(self, section_field, pos, value) ==
    LET section_index == section_field IN
    IF value = 0 /\ is_none(self.sections[section_index])
    THEN [self |-> self, res |-> Ok(Unit)]
    ELSE
        LET section == IF is_none(self.sections[section_index])
                       THEN Section_new(bits(section_field))
                       ELSE unwrap(self.sections[section_index])
            stored == Section_item(section, pos)
            r == IF stored.ok /\ stored.val # 0 /\ value # 0
                 THEN [self |-> section, res |-> Ok(Unit)]
                 ELSE Section_set_item(section, pos, value)
        IN  IF ~r.res.ok
            THEN [self |-> [self EXCEPT !.sections[section_index] = Some(r.self)],
                  res |-> r.res]
            ELSE IF Section_is_empty(r.self)
            THEN [self |-> [self EXCEPT !.sections[section_index] = None],
                  res |-> Ok(Unit)]
            ELSE [self |-> [self EXCEPT !.sections[section_index] = Some(r.self)],
                  res |-> Ok(Unit)]

\* variant: a Section that has become all-default stays allocated
Subchunk_set_item_no_reclaim(self, section_field, pos, value) ==
    LET section_index == section_field IN
    IF value = 0 /\ is_none(self.sections[section_index])
    THEN [self |-> self, res |-> Ok(Unit)]
    ELSE
        LET section == IF is_none(self.sections[section_index])
                       THEN Section_new(bits(section_field))
                       ELSE unwrap(self.sections[section_index])
            r == Section_set_item(section, pos, value)
        IN  [self |-> [self EXCEPT !.sections[section_index] = Some(r.self)],
             res |-> r.res]

Subchunk_set_item(self, section_field, pos, value) ==
    LET section_index == section_field IN
    IF value = 0 /\ is_none(self.sections[section_index])
    THEN [self |-> self, res |-> Ok(Unit)]
    ELSE
        LET section == IF is_none(self.sections[section_index])
                       THEN Section_new(bits(section_field))
                       ELSE unwrap(self.sections[section_index])
            r == Section_set_item(section, pos, value)
        IN  IF ~r.res.ok
            THEN \* `?` returns after get_or_insert_with has filled the slot
                 [self |-> [self EXCEPT !.sections[section_index] = Some(r.self)],
                  res |-> r.res]
            ELSE IF Section_is_empty(r.self)
            THEN [self |-> [self EXCEPT !.sections[section_index] = None],
                  res |-> Ok(Unit)]
            ELSE [self |-> [self EXCEPT !.sections[section_index] = Some(r.self)],
                  res |-> Ok(Unit)]

\* the generated getter `$field_name_method` and setter `set_$field_name_method`
Subchunk_get_field(self, section_field, pos) ==
    LET r == Subchunk_item(self, section_field, pos) IN
    IF r.ok THEN Ok(from_u64(section_field, r.val)) ELSE r

Subchunk_set_field(self, section_field, pos, value) ==
    Subchunk_set_item(self, section_field, pos, to_u64(section_field, value))

-----------------------------------------------------------------------------
(* Chunk.                                                                   *)

Chunk_default == [subchunks |-> [i \in 1..NUM_SUBCHUNKS |-> None]]

\* `n as usize` of an i32: a negative n is sign-extended (two's complement:
\* the digits of n are the complements of the digits of -(n + 1)), -1 is usize::MAX
as_usize(n) ==
    IF n >= 0 THEN usize_from_nat(n)
    ELSE <<(LIMB - 1) - ((-(n + 1)) % LIMB), (LIMB - 1) - ((-(n + 1)) \div LIMB),
           LIMB - 1, LIMB - 1>>

\* variant: the index wraps into the array instead of leaving it
subchunk_index_wrapping(pos_z) ==
    <<(pos_z \div SUBCHUNK_DEPTH) % NUM_SUBCHUNKS, 0, 0, 0>>
subchunk_index(pos_z) == usize_div_euclid(as_usize(pos_z), SUBCHUNK_DEPTH)

\* self.subchunks.get(index): whether the index is inside the array, and the
\* slot (counted from 1) it names when it is
in_subchunks(index) ==
    index[4] = 0 /\ index[3] = 0 /\ index[2] = 0 /\ index[1] < NUM_SUBCHUNKS
subchunks_slot(index) == index[1] + 1

\* variant: every layer of a Subchunk maps to its lowest layer
local_to_sub_flat(pos) == <<pos[1], pos[2], 0>>
local_to_sub(pos) == <<pos[1], pos[2], pos[3] % SUBCHUNK_DEPTH>>

Chunk_get_field(self, section_field, pos) ==
    LET index == subchunk_index(pos[3]) IN
    IF ~in_subchunks(index) THEN Err(OutOfBounds(pos))
    ELSE LET subchunk_opt == self.subchunks[subchunks_slot(index)] IN
         IF is_none(subchunk_opt) THEN Ok(from_u64(section_field, 0))
         ELSE Subchunk_get_field(unwrap(subchunk_opt), section_field, local_to_sub(pos))

\* variant: a Subchunk that has become empty stays in its slot
Chunk_set_field_no_collapse(self, section_field, pos, value) ==
    LET index == subchunk_index(pos[3]) IN
    IF ~in_subchunks(index) THEN [self |-> self, res |-> Err(OutOfBounds(pos))]
    ELSE
        LET subchunk_opt == self.subchunks[subchunks_slot(index)] IN
        IF to_u64(section_field, value) = 0 /\ is_none(subchunk_opt)
        THEN [self |-> self, res |-> Ok(Unit)]
        ELSE
            LET subchunk == IF is_none(subchunk_opt) THEN Subchunk_default
                            ELSE unwrap(subchunk_opt)
                sub_pos == local_to_sub(pos)
                r == Subchunk_set_field(subchunk, section_field, sub_pos, value)
            IN  [self |-> [self EXCEPT !.subchunks[subchunks_slot(index)] = Some(r.self)],
                 res |-> r.res]

\* variant: the Subchunk is allocated for every write and never released
Chunk_set_field_always_allocates(self, section_field, pos, value) ==
    LET index == subchunk_index(pos[3]) IN
    IF ~in_subchunks(index) THEN [self |-> self, res |-> Err(OutOfBounds(pos))]
    ELSE
        LET subchunk_opt == self.subchunks[subchunks_slot(index)]
            subchunk == IF is_none(subchunk_opt) THEN Subchunk_default
                        ELSE unwrap(subchunk_opt)
            sub_pos == local_to_sub(pos)
            r == Subchunk_set_field(subchunk, section_field, sub_pos, value)
        IN  [self |-> [self EXCEPT !.subchunks[subchunks_slot(index)] = Some(r.self)],
             res |-> r.res]

Chunk_set_field(self, section_field, pos, value) ==
    LET index == subchunk_index(pos[3]) IN
    IF ~in_subchunks(index) THEN [self |-> self, res |-> Err(OutOfBounds(pos))]
    ELSE
        LET subchunk_opt == self.subchunks[subchunks_slot(index)] IN
        IF to_u64(section_field, value) = 0 /\ is_none(subchunk_opt)
        THEN [self |-> self, res |-> Ok(Unit)]
        ELSE
            LET subchunk == IF is_none(subchunk_opt) THEN Subchunk_default
                            ELSE unwrap(subchunk_opt)
                sub_pos == local_to_sub(pos)
                r == Subchunk_set_field(subchunk, section_field, sub_pos, value)
            IN  IF ~r.res.ok
                THEN [self |-> [self EXCEPT !.subchunks[subchunks_slot(index)] = Some(r.self)],
                      res |-> r.res]
                ELSE IF Subchunk_is_empty(r.self)
                THEN [self |-> [self EXCEPT !.subchunks[subchunks_slot(index)] = None],
                      res |-> Ok(Unit)]
                ELSE [self |-> [self EXCEPT !.subchunks[subchunks_slot(index)] = Some(r.self)],
                      res |-> Ok(Unit)]

-----------------------------------------------------------------------------
(* World: coordinates.                                                      *)

CHUNK_ADJ_OFFSETS == <<(<<-1, 0>>), <<1, 0>>, <<0, -1>>, <<0, 1>>>>

chunk_offsets(pos) ==
    [i \in 1..4 |-> <<pos[1] + CHUNK_ADJ_OFFSETS[i][1], pos[2] + CHUNK_ADJ_OFFSETS[i][2]>>]

BLOCK_OFFSETS ==
    <<(<<1, 0, 0>>), <<0, 1, 0>>, <<0, 0, 1>>, <<-1, 0, 0>>, <<0, -1, 0>>, <<0, 0, -1>>>>

\* pos + offset for every offset of BLOCK_OFFSETS, in its order
block_offsets(pos) ==
    [i \in 1..6 |-> <<pos[1] + BLOCK_OFFSETS[i][1], pos[2] + BLOCK_OFFSETS[i][2],
                      pos[3] + BLOCK_OFFSETS[i][3]>>]

\* `radius as i32`: the same 32 bits read as two's complement
u32_as_i32(n) ==
    IF n[2] < LIMB \div 2 THEN n[2] * LIMB + n[1] ELSE (n[2] - LIMB) * LIMB + n[1]

\* -n of an i32 where overflow is not checked: -i32::MIN is i32::MIN
wrapping_neg(n) == IF n = I32_MIN THEN I32_MIN ELSE -n
\* a + b of two i32 where overflow is not checked: the sum modulo 2^32
wrapping_add(a, b) ==
    IF a < 0 /\ b < 0 /\ b < I32_MIN - a THEN (a - I32_MIN) + (b - I32_MIN)
    ELSE IF a > 0 /\ b > 0 /\ b > I32_MAX - a THEN (a + I32_MIN) + (b + I32_MIN)
    ELSE a + b

\* iproduct!(-radius..=radius, -radius..=radius): x is the outer loop, y the
\* inner one; a range whose start is above its end is empty. `-radius` of
\* i32::MIN overflows: a build with overflow checks (debug) panics there,
\* before any position is yielded; a build without them (release) wraps.
\* `origin + ChunkPosition::new(x, y)` runs as the iterator is advanced: with
\* overflow checks the first sum that leaves the i32 range panics, after the
\* positions before it were yielded; without them the sum wraps.
positions_in_square(origin, radius_u32, overflow_checks) ==
    LET radius == u32_as_i32(radius_u32) IN
    IF overflow_checks /\ radius = I32_MIN THEN [panic |-> TRUE, positions |-> <<>>]
    ELSE
        LET start == wrapping_neg(radius)
            n == IF start <= radius THEN radius - start + 1 ELSE 0
            x(k) == start + ((k - 1) \div n)
            y(k) == start + ((k - 1) % n)
            add_overflows(a, b) ==
                \/ a < 0 /\ b < 0 /\ b < I32_MIN - a
                \/ a > 0 /\ b > 0 /\ b > I32_MAX - a
            overflowing ==
                {k \in 1..(n * n) :
                    add_overflows(origin[1], x(k)) \/ add_overflows(origin[2], y(k))}
            yielded ==
                IF overflow_checks /\ overflowing # {}
                THEN (CHOOSE k \in overflowing : \A j \in overflowing : k <= j) - 1
                ELSE n * n
        IN  [panic |-> overflow_checks /\ overflowing # {},
             positions |-> [k \in 1..yielded |->
                <<wrapping_add(origin[1], x(k)), wrapping_add(origin[2], y(k))>>]]

chunk_to_block_pos(pos) == <<pos[1] * CHUNK_WIDTH, pos[2] * CHUNK_HEIGHT, 0>>

\* variant: z is the middle loop and y the innermost one
chunk_coords_y_innermost(offset) ==
    [k \in 1..(CHUNK_WIDTH * CHUNK_HEIGHT * CHUNK_DEPTH) |->
        <<chunk_to_block_pos(offset)[1] + ((k - 1) \div (CHUNK_HEIGHT * CHUNK_DEPTH)),
          chunk_to_block_pos(offset)[2] + ((k - 1) % CHUNK_HEIGHT),
          chunk_to_block_pos(offset)[3] + (((k - 1) \div CHUNK_HEIGHT) % CHUNK_DEPTH)>>]

\* iproduct!(0..W, 0..H, 0..D): the first range is the outermost loop
chunk_coords(offset) ==
    [k \in 1..(CHUNK_WIDTH * CHUNK_HEIGHT * CHUNK_DEPTH) |->
        <<chunk_to_block_pos(offset)[1] + ((k - 1) \div (CHUNK_HEIGHT * CHUNK_DEPTH)),
          chunk_to_block_pos(offset)[2] + (((k - 1) \div CHUNK_DEPTH) % CHUNK_HEIGHT),
          chunk_to_block_pos(offset)[3] + ((k - 1) % CHUNK_DEPTH)>>]

\* the quotient and remainder of Rust's `/` and `%`, which round towards zero
truncating_div(a, b) == IF a >= 0 THEN a \div b ELSE -((-a) \div b)
truncating_rem(a, b) == a - b * truncating_div(a, b)

\* variant: the division rounds towards zero
block_to_chunk_pos_truncating(pos) ==
    <<truncating_div(pos[1], CHUNK_WIDTH), truncating_div(pos[2], CHUNK_HEIGHT)>>

\* div_euclid by a positive divisor rounds towards minus infinity, as \div does
block_to_chunk_pos(pos) == <<pos[1] \div CHUNK_WIDTH, pos[2] \div CHUNK_HEIGHT>>

\* variant: the remainder takes the sign of the dividend
global_to_local_pos_truncating(pos) ==
    <<truncating_rem(pos[1], CHUNK_WIDTH), truncating_rem(pos[2], CHUNK_HEIGHT), pos[3]>>

global_to_local_pos(pos) == <<pos[1] % CHUNK_WIDTH, pos[2] % CHUNK_HEIGHT, pos[3]>>

-----------------------------------------------------------------------------
(* World: chunk map and field access.                                       *)

is_chunk_at_pos(cs, pos) == pos \in DOMAIN cs /\ is_some(cs[pos])

chunk(cs, pos) ==
    IF is_chunk_at_pos(cs, pos) THEN Ok(unwrap(cs[pos])) ELSE Err(ChunkUnloaded(pos))

\* variant: a chunk that is not resident is created on demand
chunk_mut_or_default(cs, pos) ==
    IF is_chunk_at_pos(cs, pos) THEN Ok(unwrap(cs[pos])) ELSE Ok(Chunk_default)
chunk_mut(cs, pos) ==
    IF is_chunk_at_pos(cs, pos) THEN Ok(unwrap(cs[pos])) ELSE Err(ChunkUnloaded(pos))

\* variant: the vertical range is checked before the chunk is looked up
World_get_field_bounds_first(cs, section_field, pos) ==
    LET chunk_pos == block_to_chunk_pos(pos)
        local_pos == global_to_local_pos(pos)
        c == chunk(cs, chunk_pos)
    IN  IF ~in_subchunks(subchunk_index(pos[3]))
        THEN Err(AccessError_Bounds(OutOfBounds(local_pos)))
        ELSE IF ~c.ok THEN Err(AccessError_ChunkAccess(c.err))
        ELSE LET r == Chunk_get_field(c.val, section_field, local_pos) IN
             IF r.ok THEN r ELSE Err(AccessError_Bounds(r.err))

World_get_field(cs, section_field, pos) ==
    LET chunk_pos == block_to_chunk_pos(pos)
        local_pos == global_to_local_pos(pos)
        c == chunk(cs, chunk_pos)
    IN  IF ~c.ok THEN Err(AccessError_ChunkAccess(c.err))
        ELSE LET r == Chunk_get_field(c.val, section_field, local_pos) IN
             IF r.ok THEN r ELSE Err(AccessError_Bounds(r.err))

World_set_field(cs, section_field, pos, value) ==
    LET chunk_pos == block_to_chunk_pos(pos)
        local_pos == global_to_local_pos(pos)
        c == chunk_mut(cs, chunk_pos)
    IN  IF ~c.ok THEN [chunks |-> cs, res |-> Err(AccessError_ChunkAccess(c.err))]
        ELSE LET r == Chunk_set_field(c.val, section_field, local_pos, value) IN
             [chunks |-> [cs EXCEPT ![chunk_pos] = Some(r.self)],
              res |-> IF r.res.ok THEN r.res ELSE Err(AccessError_Bounds(r.res.err))]

\* variant: the new chunk is inserted before the resident one is looked for
add_empty_chunk_replacing(cs, pos) ==
    [chunks |-> [cs EXCEPT ![pos] = Some(Chunk_default)],
     res |-> IF is_chunk_at_pos(cs, pos) THEN Err(ChunkAlreadyLoaded(pos)) ELSE Ok(Unit)]

add_empty_chunk(cs, pos) ==
    IF is_chunk_at_pos(cs, pos)
    THEN [chunks |-> cs, res |-> Err(ChunkAlreadyLoaded(pos))]
    ELSE [chunks |-> [cs EXCEPT ![pos] = Some(Chunk_default)], res |-> Ok(Unit)]

-----------------------------------------------------------------------------
(* Binary chunk encoding: bincode::config::standard() over the serde        *)
(* derives of Chunk and Subchunk. Fixed-size arrays carry no length; an     *)
(* Option is a tag byte 0 / 1 followed by the payload.                      *)

Volume == CHUNK_WIDTH * CHUNK_HEIGHT * SUBCHUNK_DEPTH

\* the k-th position (k in 0 .. Volume-1) of a Section's buffer
SubPosAt(k) ==
    <<k \div (CHUNK_HEIGHT * SUBCHUNK_DEPTH), (k \div SUBCHUNK_DEPTH) % CHUNK_HEIGHT,
      k % SUBCHUNK_DEPTH>>
SubPosIndex(pos) ==
    pos[1] * (CHUNK_HEIGHT * SUBCHUNK_DEPTH) + pos[2] * SUBCHUNK_DEPTH + pos[3]

encode_Section(s) == <<s.bits>> \o [k \in 1..Volume |-> s.data[SubPosAt(k - 1)]]

encode_Option_Section(o) ==
    IF is_none(o) THEN <<0>> ELSE <<1>> \o encode_Section(unwrap(o))

RECURSIVE encode_sections(_, _)
encode_sections(sections, i) ==
    IF i > COUNT THEN <<>>
    ELSE encode_Option_Section(sections[i]) \o encode_sections(sections, i + 1)

encode_Subchunk(sc) == encode_sections(sc.sections, 1)

\* variant: an absent Subchunk is written without its tag byte
encode_Option_Subchunk_untagged(o) ==
    IF is_none(o) THEN <<>> ELSE <<1>> \o encode_Subchunk(unwrap(o))

encode_Option_Subchunk(o) ==
    IF is_none(o) THEN <<0>> ELSE <<1>> \o encode_Subchunk(unwrap(o))

RECURSIVE encode_subchunks(_, _)
encode_subchunks(subchunks, i) ==
    IF i > NUM_SUBCHUNKS THEN <<>>
    ELSE encode_Option_Subchunk(subchunks[i]) \o encode_subchunks(subchunks, i + 1)

\* encode_to_vec(&chunk, config::standard())
encode_to_vec(c) == encode_subchunks(c.subchunks, 1)

\* A decoder returns [ok, val, rest]: the value and the bytes it did not read.
Decoded(v, rest) == [ok |-> TRUE, val |-> v, rest |-> rest]
DecodeFailed == [ok |-> FALSE, val |-> <<>>, rest |-> <<>>]
Rest(bytes, n) == SubSeq(bytes, n + 1, Len(bytes))

decode_Section(bytes) ==
    IF Len(bytes) < 1 + Volume THEN DecodeFailed
    ELSE Decoded([bits |-> bytes[1],
                  data |-> [p \in SubPositions |-> bytes[2 + SubPosIndex(p)]]],
                 Rest(bytes, 1 + Volume))

\* Option<T>: the payload decoded after a tag byte 1
decoded_Some(d) == IF d.ok THEN Decoded(Some(d.val), d.rest) ELSE DecodeFailed

\* [T; N]: the first element followed by the elements decoded after it
decoded_cons(v, t) == IF t.ok THEN Decoded(<<v>> \o t.val, t.rest) ELSE DecodeFailed

decode_Option_Section(bytes) ==
    IF Len(bytes) = 0 THEN DecodeFailed
    ELSE IF bytes[1] = 0 THEN Decoded(None, Rest(bytes, 1))
    ELSE IF bytes[1] = 1 THEN decoded_Some(decode_Section(Rest(bytes, 1)))
    ELSE DecodeFailed

RECURSIVE decode_sections(_, _)
RECURSIVE decode_sections_after(_, _)
decode_sections_after(d, n) ==
    IF ~d.ok THEN DecodeFailed ELSE decoded_cons(d.val, decode_sections(d.rest, n))

decode_sections(bytes, n) ==
    IF n = 0 THEN Decoded(<<>>, bytes)
    ELSE decode_sections_after(decode_Option_Section(bytes), n - 1)

decoded_Subchunk(d) ==
    IF d.ok THEN Decoded([sections |-> d.val], d.rest) ELSE DecodeFailed

decode_Subchunk(bytes) == decoded_Subchunk(decode_sections(bytes, COUNT))

decode_Option_Subchunk(bytes) ==
    IF Len(bytes) = 0 THEN DecodeFailed
    ELSE IF bytes[1] = 0 THEN Decoded(None, Rest(bytes, 1))
    ELSE IF bytes[1] = 1 THEN decoded_Some(decode_Subchunk(Rest(bytes, 1)))
    ELSE DecodeFailed

RECURSIVE decode_subchunks(_, _)
RECURSIVE decode_subchunks_after(_, _)
decode_subchunks_after(d, n) ==
    IF ~d.ok THEN DecodeFailed ELSE decoded_cons(d.val, decode_subchunks(d.rest, n))

decode_subchunks(bytes, n) ==
    IF n = 0 THEN Decoded(<<>>, bytes)
    ELSE decode_subchunks_after(decode_Option_Subchunk(bytes), n - 1)

\* bincode_serde::decode_from_slice(&encoded_data, config::standard())
decode_from_slice(bytes) ==
    LET d == decode_subchunks(bytes, NUM_SUBCHUNKS) IN
    IF d.ok THEN Decoded([subchunks |-> d.val], d.rest) ELSE DecodeFailed

-----------------------------------------------------------------------------
(* Chunk files: format!("{}_{}.bin", pos.x, pos.y) inside CHUNKS_DIR.        *)

DIGITS == <<"0", "1", "2", "3", "4", "5", "6", "7", "8", "9">>

RECURSIVE nat_to_string(_)
nat_to_string(n) ==
    IF n < 10 THEN <<DIGITS[n + 1]>>
    ELSE nat_to_string(n \div 10) \o <<DIGITS[(n % 10) + 1]>>

i32_to_string(n) == IF n < 0 THEN <<"-">> \o nat_to_string(-n) ELSE nat_to_string(n)

\* variant: the two components are written without the separator
file_name_no_separator(pos) ==
    i32_to_string(pos[1]) \o i32_to_string(pos[2]) \o <<".", "b", "i", "n">>

file_name(pos) ==
    i32_to_string(pos[1]) \o <<"_">> \o i32_to_string(pos[2]) \o <<".", "b", "i", "n">>

FileNames == {file_name(p) : p \in ChunkPositions}

-----------------------------------------------------------------------------
(* World: persistence. `fault` names the step of the call that the file      *)
(* system or the encoder fails, "none" when every step succeeds.            *)

\* how many bytes a write_all that fails has put in the file: any proper prefix
PartialWrites(len) == 0..(len - 1)

UnloadFaults == {"none", "create_dir_all", "create", "encode", "write_all"}
LoadFaults == {"none", "read"}

\* the outcome of unload_chunk: the map, the files and the result
\* variant: the file is created before the chunk is looked for
unload_chunk_creates_first(cs, fs, pos, fault, written) ==
    IF ~is_chunk_at_pos(cs, pos)
    THEN [chunks |-> cs, files |-> [fs EXCEPT ![file_name(pos)] = Some(<<>>)],
          res |-> Err([variant |-> "Access", cause |-> "ChunkUnloaded", pos |-> pos])]
    ELSE
        LET c == unwrap(cs[pos])
            removed == [cs EXCEPT ![pos] = None]
            path == file_name(pos)
            encoded_data == encode_to_vec(c)
        IN  IF fault = "create_dir_all" \/ fault = "create"
            THEN [chunks |-> removed, files |-> fs,
                  res |-> Err([variant |-> "Io", cause |-> fault, pos |-> pos])]
            ELSE IF fault = "encode"
            THEN [chunks |-> removed, files |-> [fs EXCEPT ![path] = Some(<<>>)],
                  res |-> Err([variant |-> "Encode", cause |-> fault, pos |-> pos])]
            ELSE IF fault = "write_all"
            THEN [chunks |-> removed,
                  files |-> [fs EXCEPT ![path] = Some(SubSeq(encoded_data, 1, written))],
                  res |-> Err([variant |-> "Io", cause |-> fault, pos |-> pos])]
            ELSE [chunks |-> removed, files |-> [fs EXCEPT ![path] = Some(encoded_data)],
                  res |-> Ok(Unit)]

\* variant: the chunk is written to its file but stays in the map
unload_chunk_keeps_chunk(cs, fs, pos, fault, written) ==
    IF ~is_chunk_at_pos(cs, pos)
    THEN [chunks |-> cs, files |-> fs,
          res |-> Err([variant |-> "Access", cause |-> "ChunkUnloaded", pos |-> pos])]
    ELSE
        LET c == unwrap(cs[pos])
            path == file_name(pos)
            encoded_data == encode_to_vec(c)
        IN  IF fault = "create_dir_all" \/ fault = "create"
            THEN [chunks |-> cs, files |-> fs,
                  res |-> Err([variant |-> "Io", cause |-> fault, pos |-> pos])]
            ELSE IF fault = "encode"
            THEN [chunks |-> cs, files |-> [fs EXCEPT ![path] = Some(<<>>)],
                  res |-> Err([variant |-> "Encode", cause |-> fault, pos |-> pos])]
            ELSE IF fault = "write_all"
            THEN [chunks |-> cs,
                  files |-> [fs EXCEPT ![path] = Some(SubSeq(encoded_data, 1, written))],
                  res |-> Err([variant |-> "Io", cause |-> fault, pos |-> pos])]
            ELSE [chunks |-> cs, files |-> [fs EXCEPT ![path] = Some(encoded_data)],
                  res |-> Ok(Unit)]

\* variant: the chunk is put back into the map when the disk write fails
unload_chunk_restores_on_io_error(cs, fs, pos, fault, written) ==
    IF ~is_chunk_at_pos(cs, pos)
    THEN [chunks |-> cs, files |-> fs,
          res |-> Err([variant |-> "Access", cause |-> "ChunkUnloaded", pos |-> pos])]
    ELSE
        LET c == unwrap(cs[pos])
            removed == [cs EXCEPT ![pos] = None]
            path == file_name(pos)
            encoded_data == encode_to_vec(c)
        IN  IF fault = "create_dir_all" \/ fault = "create"
            THEN [chunks |-> cs, files |-> fs,
                  res |-> Err([variant |-> "Io", cause |-> fault, pos |-> pos])]
            ELSE IF fault = "encode"
            THEN [chunks |-> removed, files |-> [fs EXCEPT ![path] = Some(<<>>)],
                  res |-> Err([variant |-> "Encode", cause |-> fault, pos |-> pos])]
            ELSE IF fault = "write_all"
            THEN [chunks |-> cs,
                  files |-> [fs EXCEPT ![path] = Some(SubSeq(encoded_data, 1, written))],
                  res |-> Err([variant |-> "Io", cause |-> fault, pos |-> pos])]
            ELSE [chunks |-> removed, files |-> [fs EXCEPT ![path] = Some(encoded_data)],
                  res |-> Ok(Unit)]

unload_chunk(cs, fs, pos, fault, written) ==
    IF ~is_chunk_at_pos(cs, pos)
    THEN [chunks |-> cs, files |-> fs,
          res |-> Err([variant |-> "Access", cause |-> "ChunkUnloaded", pos |-> pos])]
    ELSE
        LET c == unwrap(cs[pos])
            removed == [cs EXCEPT ![pos] = None]
            path == file_name(pos)
            encoded_data == encode_to_vec(c)
        IN  IF fault = "create_dir_all" \/ fault = "create"
            THEN [chunks |-> removed, files |-> fs,
                  res |-> Err([variant |-> "Io", cause |-> fault, pos |-> pos])]
            ELSE IF fault = "encode"
            THEN [chunks |-> removed, files |-> [fs EXCEPT ![path] = Some(<<>>)],
                  res |-> Err([variant |-> "Encode", cause |-> fault, pos |-> pos])]
            ELSE IF fault = "write_all"
            THEN [chunks |-> removed,
                  files |-> [fs EXCEPT ![path] = Some(SubSeq(encoded_data, 1, written))],
                  res |-> Err([variant |-> "Io", cause |-> fault, pos |-> pos])]
            ELSE [chunks |-> removed, files |-> [fs EXCEPT ![path] = Some(encoded_data)],
                  res |-> Ok(Unit)]

\* variant: the persisted copy replaces the resident chunk before the refusal
load_chunk_replacing(cs, fs, pos, fault) ==
    LET path == file_name(pos)
        overwrite == Err([variant |-> "ChunkOverwrite", cause |-> "ChunkAlreadyLoaded",
                          pos |-> pos])
    IN  IF fault = "read" \/ is_none(fs[path])
        THEN [chunks |-> cs, res |-> Err([variant |-> "Io", cause |-> "read", pos |-> pos])]
        ELSE LET d == decode_from_slice(unwrap(fs[path])) IN
             IF ~d.ok
             THEN [chunks |-> cs,
                   res |-> Err([variant |-> "Decode", cause |-> "decode", pos |-> pos])]
             ELSE [chunks |-> [cs EXCEPT ![pos] = Some(d.val)],
                   res |-> IF is_chunk_at_pos(cs, pos) THEN overwrite ELSE Ok(Unit)]

\* variant: an empty chunk is inserted before the stream is decoded
load_chunk_inserts_first(cs, fs, pos, fault) ==
    IF is_chunk_at_pos(cs, pos)
    THEN [chunks |-> cs,
          res |-> Err([variant |-> "ChunkOverwrite", cause |-> "ChunkAlreadyLoaded",
                       pos |-> pos])]
    ELSE
        LET path == file_name(pos) IN
        IF fault = "read" \/ is_none(fs[path])
        THEN [chunks |-> cs, res |-> Err([variant |-> "Io", cause |-> "read", pos |-> pos])]
        ELSE LET d == decode_from_slice(unwrap(fs[path])) IN
             IF ~d.ok
             THEN [chunks |-> [cs EXCEPT ![pos] = Some(Chunk_default)],
                   res |-> Err([variant |-> "Decode", cause |-> "decode", pos |-> pos])]
             ELSE [chunks |-> [cs EXCEPT ![pos] = Some(d.val)], res |-> Ok(Unit)]

load_chunk(cs, fs, pos, fault) ==
    IF is_chunk_at_pos(cs, pos)
    THEN [chunks |-> cs,
          res |-> Err([variant |-> "ChunkOverwrite", cause |-> "ChunkAlreadyLoaded",
                       pos |-> pos])]
    ELSE
        LET path == file_name(pos) IN
        IF fault = "read" \/ is_none(fs[path])
        THEN [chunks |-> cs, res |-> Err([variant |-> "Io", cause |-> "read", pos |-> pos])]
        ELSE LET d == decode_from_slice(unwrap(fs[path])) IN
             IF ~d.ok
             THEN [chunks |-> cs,
                   res |-> Err([variant |-> "Decode", cause |-> "decode", pos |-> pos])]
             ELSE [chunks |-> [cs EXCEPT ![pos] = Some(d.val)], res |-> Ok(Unit)]

-----------------------------------------------------------------------------
(* World: dirty set. The World of lib.rs has the one field `chunks`; the    *)
(* dirty set, its marking and consume_dirty are those the specification     *)
(* describes.                                                               *)

Range(f) == {f[i] : i \in DOMAIN f}

\* the dirty set after a successful set in the chunk at chunk_pos
mark_dirty(d, chunk_pos) == d \cup {chunk_pos} \cup Range(chunk_offsets(chunk_pos))

\* variant: a chunk that was loaded is marked like a chunk that was written
dirty_after_load_marking(d, chunk_pos, res) ==
    IF res.ok THEN d \cup {chunk_pos} \cup Range(chunk_offsets(chunk_pos)) ELSE d

\* the dirty set after load_chunk(chunk_pos) returned res: loading marks nothing
dirty_after_load(d, chunk_pos, res) == d

\* the sequences that list every element of a set once
Orderings(S) ==
    {s \in [1..Cardinality(S) -> S] : \A i, j \in 1..Cardinality(S) : s[i] = s[j] => i = j}

\* variant: the drained coordinates are not filtered by residency
consume_dirty_unfiltered(d, cs) == Orderings(d)

\* the sequences consume_dirty can return: the drained set, in the set's iteration order
consume_dirty(d, cs) == Orderings({p \in d : is_chunk_at_pos(cs, p)})

-----------------------------------------------------------------------------
(* The World as a state machine: one action per public call.               *)

\* how a call ended: "Ok" or the variant of the error it returned
Outcome(res) == IF res.ok THEN "Ok" ELSE res.err.variant

\* a value a getter returned (or a setter was given), as the u64 it encodes to
Encoded(section_field, r) == IF r.ok THEN to_u64(section_field, r.val) ELSE 0

\* the first level of the hierarchy that is missing at a global position:
\* the chunk, the layer (z below or above the chunk), the Subchunk slot or the
\* field's Section; "stored" when the Section exists
Level(cs, section_field, pos) ==
    LET chunk_pos == block_to_chunk_pos(pos) IN
    IF ~is_chunk_at_pos(cs, chunk_pos) THEN "chunk"
    ELSE IF pos[3] < 0 THEN "below"
    ELSE IF pos[3] >= CHUNK_DEPTH THEN "above"
    ELSE LET sub == unwrap(cs[chunk_pos]).subchunks[(pos[3] \div SUBCHUNK_DEPTH) + 1] IN
         IF is_none(sub) THEN "subchunk"
         ELSE IF is_none(unwrap(sub).sections[section_field]) THEN "section"
         ELSE "stored"

NoCall ==
    [op |-> "new", cpos |-> <<0, 0>>, lvl |-> "chunk", val |-> 0, old |-> 0, out |-> 0,
     res |-> "Ok", ret |-> <<>>, arg |-> <<>>]

Init ==
    /\ chunks = [p \in ChunkPositions |-> None]
    /\ files = [n \in FileNames |-> None]
    /\ dirty = {}
    /\ last = NoCall
    /\ nsets = 0
    /\ nfaults = 0

GetField(section_field, pos) ==
    LET r == World_get_field(chunks, section_field, pos) IN
    /\ last' = [NoCall EXCEPT !.op = "get",
                              !.lvl = Level(chunks, section_field, pos),
                              !.out = Encoded(section_field, r), !.res = Outcome(r)]
    /\ UNCHANGED <<chunks, files, dirty, nsets, nfaults>>

SetField(section_field, pos, value) ==
    LET r == World_set_field(chunks, section_field, pos, value)
        before == World_get_field(chunks, section_field, pos)
    IN  /\ nsets < MaxSets
        /\ nsets' = nsets + 1
        /\ chunks' = r.chunks
        /\ last' = [NoCall EXCEPT !.op = "set", !.cpos = block_to_chunk_pos(pos),
                                  !.lvl = Level(chunks, section_field, pos),
                                  !.val = to_u64(section_field, value),
                                  !.old = Encoded(section_field, before),
                                  !.res = Outcome(r.res)]
        /\ UNCHANGED <<files, dirty, nfaults>>

\* the setter of a World that tracks dirty chunks
SetFieldAndMark(section_field, pos, value) ==
    LET r == World_set_field(chunks, section_field, pos, value)
        before == World_get_field(chunks, section_field, pos)
    IN  /\ nsets < MaxSets
        /\ nsets' = nsets + 1
        /\ chunks' = r.chunks
        /\ dirty' = IF r.res.ok THEN mark_dirty(dirty, block_to_chunk_pos(pos)) ELSE dirty
        /\ last' = [NoCall EXCEPT !.op = "set", !.cpos = block_to_chunk_pos(pos),
                                  !.lvl = Level(chunks, section_field, pos),
                                  !.val = to_u64(section_field, value),
                                  !.old = Encoded(section_field, before),
                                  !.res = Outcome(r.res)]
        /\ UNCHANGED <<files, nfaults>>

AddEmptyChunk(pos) ==
    LET r == add_empty_chunk(chunks, pos) IN
    /\ chunks' = r.chunks
    /\ last' = [NoCall EXCEPT !.op = "add_empty_chunk", !.cpos = pos,
                              !.res = IF r.res.ok THEN "Ok" ELSE r.res.err.cause]
    /\ UNCHANGED <<files, dirty, nsets, nfaults>>

UnloadChunk(pos, fault, written) ==
    LET r == unload_chunk(chunks, files, pos, fault, written) IN
    /\ fault # "none" => nfaults < MaxFaults /\ is_chunk_at_pos(chunks, pos)
    /\ fault = "write_all" => written \in PartialWrites(Len(encode_to_vec(unwrap(chunks[pos]))))
    /\ fault # "write_all" => written = 0
    /\ nfaults' = IF fault = "none" THEN nfaults ELSE nfaults + 1
    /\ chunks' = r.chunks
    /\ files' = r.files
    /\ last' = [NoCall EXCEPT !.op = "unload_chunk", !.cpos = pos, !.res = Outcome(r.res)]
    /\ UNCHANGED <<dirty, nsets>>

LoadChunk(pos, fault) ==
    LET r == load_chunk(chunks, files, pos, fault) IN
    /\ fault # "none" =>
          /\ nfaults < MaxFaults
          /\ ~is_chunk_at_pos(chunks, pos)
          /\ is_some(files[file_name(pos)])
    /\ nfaults' = IF fault = "none" THEN nfaults ELSE nfaults + 1
    /\ chunks' = r.chunks
    /\ last' = [NoCall EXCEPT !.op = "load_chunk", !.cpos = pos, !.res = Outcome(r.res)]
    /\ UNCHANGED <<files, dirty, nsets>>

\* load_chunk of a World that tracks dirty chunks
LoadChunkTracked(pos) ==
    LET r == load_chunk(chunks, files, pos, "none") IN
    /\ chunks' = r.chunks
    /\ dirty' = dirty_after_load(dirty, pos, r.res)
    /\ last' = [NoCall EXCEPT !.op = "load_chunk", !.cpos = pos, !.res = Outcome(r.res)]
    /\ UNCHANGED <<files, nsets, nfaults>>

\* unload_chunk of a World that tracks dirty chunks: the dirty set is left alone
UnloadChunkTracked(pos) ==
    LET r == unload_chunk(chunks, files, pos, "none", 0) IN
    /\ chunks' = r.chunks
    /\ files' = r.files
    /\ last' = [NoCall EXCEPT !.op = "unload_chunk", !.cpos = pos, !.res = Outcome(r.res)]
    /\ UNCHANGED <<dirty, nsets, nfaults>>

ConsumeDirty ==
    \E s \in consume_dirty(dirty, chunks) :
        /\ dirty' = {}
        /\ last' = [NoCall EXCEPT !.op = "consume_dirty", !.ret = s]
        /\ UNCHANGED <<chunks, files, nsets, nfaults>>

\* the longest byte stream a chunk encodes to
MaxWritten == NUM_SUBCHUNKS * (1 + COUNT * (2 + Volume))

\* a World whose chunks are never persisted
NextAccess ==
    \/ \E f \in SectionField, p \in GlobalPositions : GetField(f, p)
    \/ \E f \in SectionField, p \in GlobalPositions :
          \E v \in FieldValues(f) : SetField(f, p, v)
    \/ \E c \in ChunkPositions : AddEmptyChunk(c)

SpecAccess == Init /\ [][NextAccess]_vars

\* a World that is only written: chunks are added and fields are set
NextWrites ==
    \/ \E f \in SectionField, p \in GlobalPositions :
          \E v \in FieldValues(f) : SetField(f, p, v)
    \/ \E c \in ChunkPositions : AddEmptyChunk(c)

SpecWrites == Init /\ [][NextWrites]_vars

\* the whole World, with fewer writes
Next ==
    \/ \E f \in SectionField, p \in GlobalPositions : GetField(f, p)
    \/ \E f \in SectionField, p \in GlobalPositions :
          \E v \in FieldValues(f) : nsets < MaxStoreSets /\ SetField(f, p, v)
    \/ \E c \in ChunkPositions : AddEmptyChunk(c)
    \/ \E c \in ChunkPositions, fault \in UnloadFaults, w \in 0..MaxWritten :
          UnloadChunk(c, fault, w)
    \/ \E c \in ChunkPositions, fault \in LoadFaults : LoadChunk(c, fault)

Spec == Init /\ [][Next]_vars

\* a World that tracks dirty chunks, with fewer writes: fields are set, chunks
\* are added, unloaded and loaded without failures, and the dirty set is consumed
NextDirty ==
    \/ \E f \in SectionField, p \in GlobalPositions :
          \E v \in FieldValues(f) : nsets < MaxStoreSets /\ SetFieldAndMark(f, p, v)
    \/ \E c \in ChunkPositions : AddEmptyChunk(c)
    \/ \E c \in ChunkPositions : UnloadChunkTracked(c)
    \/ \E c \in ChunkPositions : LoadChunkTracked(c)
    \/ ConsumeDirty

SpecDirty == Init /\ [][NextDirty]_vars

-----------------------------------------------------------------------------
(* The coordinate functions of World, called on their own: `last` holds the *)
(* argument and the value returned.                                         *)

Call(op, arg, ret) == [NoCall EXCEPT !.op = op, !.arg = arg, !.ret = ret]

BlockToChunkPos(pos) ==
    /\ last' = Call("block_to_chunk_pos", pos, block_to_chunk_pos(pos))
    /\ UNCHANGED <<chunks, files, dirty, nsets, nfaults>>

GlobalToLocalPos(pos) ==
    /\ last' = Call("global_to_local_pos", pos, global_to_local_pos(pos))
    /\ UNCHANGED <<chunks, files, dirty, nsets, nfaults>>

ChunkToBlockPos(pos) ==
    /\ last' = Call("chunk_to_block_pos", pos, chunk_to_block_pos(pos))
    /\ UNCHANGED <<chunks, files, dirty, nsets, nfaults>>

BlockOffsets(pos) ==
    /\ last' = Call("block_offsets", pos, block_offsets(pos))
    /\ UNCHANGED <<chunks, files, dirty, nsets, nfaults>>

PositionsInSquare(origin, radius, overflow_checks) ==
    LET r == positions_in_square(origin, radius, overflow_checks) IN
    /\ last' = [Call("positions_in_square", <<origin[1], origin[2], radius>>, r.positions)
                    EXCEPT !.res = IF r.panic THEN "panic" ELSE "Ok"]
    /\ UNCHANGED <<chunks, files, dirty, nsets, nfaults>>

ChunkCoords(offset) ==
    /\ last' = Call("chunk_coords", offset, chunk_coords(offset))
    /\ UNCHANGED <<chunks, files, dirty, nsets, nfaults>>

NextCoords ==
    \/ \E p \in CoordPositions : BlockToChunkPos(p)
    \/ \E p \in CoordPositions : GlobalToLocalPos(p)
    \/ \E c \in CoordChunks : ChunkToBlockPos(c)
    \/ \E p \in CoordPositions : BlockOffsets(p)
    \/ \E c \in SquareOrigins, r \in Radii, overflow_checks \in BOOLEAN :
          PositionsInSquare(c, r, overflow_checks)
    \/ \E c \in CoordChunks : ChunkCoords(c)

SpecCoords == Init /\ [][NextCoords]_vars

-----------------------------------------------------------------------------
(* The FieldType conversions, called on their own, and a boolean getter    *)
(* reading a stored item.                                                   *)

\* u64 values given to from_u64: around 0, around the u8 range, and large
U64Samples == (0..(2 * U8_MODULUS + 1)) \cup {2^30 - 1, 2^30}

BoolFields == {f \in SectionField : FIELD_IS_BOOL[f]}

U8ToU64(v) ==
    /\ last' = Call("u8_to_u64", v, u8_to_u64(v))
    /\ UNCHANGED <<chunks, files, dirty, nsets, nfaults>>

U8FromU64(n) ==
    /\ last' = Call("u8_from_u64", n, u8_from_u64(n))
    /\ UNCHANGED <<chunks, files, dirty, nsets, nfaults>>

BoolToU64(b) ==
    /\ last' = Call("bool_to_u64", b, bool_to_u64(b))
    /\ UNCHANGED <<chunks, files, dirty, nsets, nfaults>>

BoolFromU64(n) ==
    /\ last' = Call("bool_from_u64", n, bool_from_u64(n))
    /\ UNCHANGED <<chunks, files, dirty, nsets, nfaults>>

\* a boolean getter of a Subchunk whose Section stores n at pos
GetStoredBool(section_field, pos, n) ==
    LET sc == Subchunk_set_item(Subchunk_default, section_field, pos, n).self IN
    /\ last' = Call("get_bool", Subchunk_item(sc, section_field, pos).val,
                    Subchunk_get_field(sc, section_field, pos))
    /\ UNCHANGED <<chunks, files, dirty, nsets, nfaults>>

NextCodec ==
    \/ \E v \in 0..(U8_MODULUS - 1) : U8ToU64(v)
    \/ \E n \in U64Samples : U8FromU64(n)
    \/ \E b \in BOOLEAN : BoolToU64(b)
    \/ \E n \in U64Samples : BoolFromU64(n)
    \/ \E f \in BoolFields, p \in SubPositions :
          \E n \in 0..(2^bits(f) - 1) : GetStoredBool(f, p, n)

SpecCodec == Init /\ [][NextCodec]_vars

-----------------------------------------------------------------------------
(* Block and BlockDefinition (block.rs).                                    *)

\* #[repr(u8)] enum Block: the discriminants
Block_Air == 0
Block_Grass == 1
Block_Dirt == 2
Block_Stone == 3
Block_Bedrock == 4
Block_Missing == 5
Block_Length == 6

\* the block types definition() accepts
Blocks == Block_Air..Block_Missing

NAME_MASK == 255
HOVERABLE_MASK == 2^8
VISIBLE_MASK == 2^9
BREAKABLE_MASK == 2^10
COLLIDABLE_MASK == 2^11
REPLACEABLE_MASK == 2^12

\* data & mask for a one-bit mask
HasBit(data, mask) == (data \div mask) % 2 = 1

\* the flag masks are distinct bits above the name: `|=` adds them
BlockDefinition_new(name, hoverable, visible, breakable, collidable, replaceable) ==
    (name % (NAME_MASK + 1))
    + (IF hoverable THEN HOVERABLE_MASK ELSE 0)
    + (IF visible THEN VISIBLE_MASK ELSE 0)
    + (IF breakable THEN BREAKABLE_MASK ELSE 0)
    + (IF collidable THEN COLLIDABLE_MASK ELSE 0)
    + (IF replaceable THEN REPLACEABLE_MASK ELSE 0)

BlockDefinition_AIR == BlockDefinition_new(Block_Air, FALSE, FALSE, FALSE, FALSE, TRUE)
BlockDefinition_GRASS == BlockDefinition_new(Block_Grass, TRUE, TRUE, TRUE, TRUE, FALSE)
BlockDefinition_DIRT == BlockDefinition_new(Block_Dirt, TRUE, TRUE, TRUE, TRUE, FALSE)
BlockDefinition_STONE == BlockDefinition_new(Block_Stone, TRUE, TRUE, TRUE, TRUE, FALSE)
BlockDefinition_BEDROCK == BlockDefinition_new(Block_Bedrock, TRUE, TRUE, FALSE, TRUE, FALSE)
BlockDefinition_MISSING == BlockDefinition_new(Block_Missing, FALSE, TRUE, FALSE, TRUE, FALSE)

is_hoverable(data) == HasBit(data, HOVERABLE_MASK)
is_visible(data) == HasBit(data, VISIBLE_MASK)
is_breakable(data) == HasBit(data, BREAKABLE_MASK)
is_collidable(data) == HasBit(data, COLLIDABLE_MASK)
is_replaceable(data) == HasBit(data, REPLACEABLE_MASK)

Block_definition(self) ==
    CASE self = Block_Air -> BlockDefinition_AIR
      [] self = Block_Grass -> BlockDefinition_GRASS
      [] self = Block_Dirt -> BlockDefinition_DIRT
      [] self = Block_Stone -> BlockDefinition_STONE
      [] self = Block_Bedrock -> BlockDefinition_BEDROCK
      [] self = Block_Missing -> BlockDefinition_MISSING

\* `value as u8`, then a transmute of every byte below Length
Block_from_u64(value) ==
    LET value_u8 == value % U8_MODULUS IN
    IF value_u8 < Block_Length THEN value_u8 ELSE Block_Missing

Block_into_u64(self) == self

BlockDefinitionOf(block) ==
    /\ last' = Call("definition", block, Block_definition(block))
    /\ UNCHANGED <<chunks, files, dirty, nsets, nfaults>>

BlockFromU64(value) ==
    /\ last' = Call("Block::from", value, Block_from_u64(value))
    /\ UNCHANGED <<chunks, files, dirty, nsets, nfaults>>

\* the definition of the block type a stored tag converts to
DefinitionOfTag(value) ==
    /\ last' = Call("definition_of_tag", value, Block_definition(Block_from_u64(value)))
    /\ UNCHANGED <<chunks, files, dirty, nsets, nfaults>>

NextBlock ==
    \/ \E b \in Blocks : BlockDefinitionOf(b)
    \/ \E n \in U64Samples : BlockFromU64(n)
    \/ \E n \in U64Samples : DefinitionOfTag(n)

SpecBlock == Init /\ [][NextBlock]_vars

-----------------------------------------------------------------------------
(* Vocabulary of the properties.                                            *)

Default(section_field) == IF FIELD_IS_BOOL[section_field] THEN FALSE ELSE 0
NonDefault(section_field) == FieldValues(section_field) \ {Default(section_field)}

\* the positions of a chunk's volume, and positions around it
LocalPositions ==
    {<<x, y, z>> : x \in 0..(CHUNK_WIDTH - 1), y \in 0..(CHUNK_HEIGHT - 1),
                   z \in 0..(CHUNK_DEPTH - 1)}
\* the layers just outside the chunk, and z whose low 30, 31 or 32 bits are an
\* in-range layer: 2^30, -2^30, i32::MIN, and i32::MAX
OutsideZs ==
    ((-3)..(-1)) \cup (CHUNK_DEPTH..(CHUNK_DEPTH + 2))
        \cup {2^30, -(2^30), -(2^30) - 2^30, 2^30 + (2^30 - 1)}
WideXs == (-1)..CHUNK_WIDTH
WideYs == 0..CHUNK_HEIGHT

ResidentChunks == {c \in ChunkPositions : is_chunk_at_pos(chunks, c)}
\* the chunks the World holds
Chunks == {unwrap(chunks[c]) : c \in ResidentChunks}
\* the Subchunks those chunks hold, and a Subchunk just constructed
Subchunks ==
    {unwrap(ci[1].subchunks[ci[2]]) :
        ci \in {cj \in Chunks \X (1..NUM_SUBCHUNKS) : is_some(cj[1].subchunks[cj[2]])}}
    \cup {Subchunk_default}

SlotOf(c, pos) == c.subchunks[(pos[3] \div SUBCHUNK_DEPTH) + 1]
SubchunkAbsent(c, pos) == is_none(SlotOf(c, pos))
SectionAbsent(c, section_field, pos) ==
    is_some(SlotOf(c, pos)) /\ is_none(unwrap(SlotOf(c, pos)).sections[section_field])

\* some field of the chunk at a chunk position reads a non-default value
HoldsData(cs, chunk_pos) ==
    /\ is_chunk_at_pos(cs, chunk_pos)
    /\ \E f \in SectionField, p \in LocalPositions :
          Chunk_get_field(unwrap(cs[chunk_pos]), f, p) # Ok(Default(f))

\* every field reads the same at every position of the two chunks
SameReads(c, d) ==
    \A f \in SectionField, p \in LocalPositions :
        Chunk_get_field(c, f, p) = Chunk_get_field(d, f, p)

-----------------------------------------------------------------------------
\* C1: last write wins at every level: after a successful set(F, p, v) with v
\* fitting F's bit width, get(F, p) returns v, whatever was stored at p before
\* (World, Chunk and Subchunk setters and getters alike).
LastWriteWins ==
    /\ \A f \in SectionField, p \in GlobalPositions : \A v \in FieldValues(f) :
          LET r == World_set_field(chunks, f, p, v) IN
          r.res.ok => World_get_field(r.chunks, f, p) = Ok(v)
    /\ \A c \in Chunks, f \in SectionField, p \in LocalPositions : \A v \in FieldValues(f) :
          LET r == Chunk_set_field(c, f, p, v) IN
          r.res.ok => Chunk_get_field(r.self, f, p) = Ok(v)
    /\ \A sc \in Subchunks, f \in SectionField, p \in SubPositions : \A v \in FieldValues(f) :
          LET r == Subchunk_set_field(sc, f, p, v) IN
          r.res.ok => Subchunk_get_field(r.self, f, p) = Ok(v)

\* a successful write has replaced a non-default value by another non-default value
OverwriteHappened ==
    /\ last.op = "set" /\ last.res = "Ok"
    /\ last.old # 0 /\ last.val # 0 /\ last.val # last.old

\* C2: a get of any field at an in-bounds position of a resident chunk returns
\* the field's default (0, false) when the Subchunk slot is absent and when the
\* field's Section is absent; every field reads default in a chunk just added.
DefaultWhenAbsent ==
    /\ \A c \in Chunks, f \in SectionField, p \in LocalPositions :
          (SubchunkAbsent(c, p) \/ SectionAbsent(c, f, p))
              => Chunk_get_field(c, f, p) = Ok(Default(f))
    /\ \A f \in SectionField, p \in GlobalPositions :
          Level(chunks, f, p) \in {"subchunk", "section"}
              => World_get_field(chunks, f, p) = Ok(Default(f))
    /\ \A cp \in ChunkPositions \ ResidentChunks :
          LET r == add_empty_chunk(chunks, cp) IN
          \A f \in SectionField, p \in LocalPositions :
              Chunk_get_field(unwrap(r.chunks[cp]), f, p) = Ok(Default(f))

\* a getter has read a field whose Section is absent in a present Subchunk
ReadAbsentSection ==
    last.op = "get" /\ last.lvl = "section" /\ last.res = "Ok" /\ last.out = 0

\* C3: World get and set at a position whose chunk is not resident return
\* ChunkUnloaded and leave the World as it was: no chunk is created.
UnloadedChunkIsError ==
    \A f \in SectionField, p \in GlobalPositions :
        LET cp == block_to_chunk_pos(p) IN
        ~is_chunk_at_pos(chunks, cp) =>
            /\ World_get_field(chunks, f, p) = Err(AccessError_ChunkAccess(ChunkUnloaded(cp)))
            /\ \A v \in FieldValues(f) :
                  LET r == World_set_field(chunks, f, p, v) IN
                  /\ r.res = Err(AccessError_ChunkAccess(ChunkUnloaded(cp)))
                  /\ r.chunks = chunks
                  /\ ~is_chunk_at_pos(r.chunks, cp)

\* a setter was refused because its chunk is not resident, next to a resident chunk
SetOnUnloadedChunk ==
    /\ last.op = "set" /\ last.res = "ChunkAccess"
    /\ ~is_chunk_at_pos(chunks, last.cpos)
    /\ ResidentChunks # {}

\* C4: add_empty_chunk(pos) succeeds iff no chunk is resident at pos; otherwise
\* it returns ChunkAlreadyLoaded and the resident chunk reads as before.
AddEmptyChunkGuarded ==
    \A cp \in ChunkPositions :
        LET r == add_empty_chunk(chunks, cp) IN
        /\ r.res.ok <=> ~is_chunk_at_pos(chunks, cp)
        /\ is_chunk_at_pos(r.chunks, cp)
        /\ \A other \in ChunkPositions \ {cp} : r.chunks[other] = chunks[other]
        /\ is_chunk_at_pos(chunks, cp) =>
              /\ r.res = Err(ChunkAlreadyLoaded(cp))
              /\ SameReads(unwrap(r.chunks[cp]), unwrap(chunks[cp]))

\* add_empty_chunk was refused at a chunk that holds data
AddOverData ==
    /\ last.op = "add_empty_chunk" /\ last.res = "ChunkAlreadyLoaded"
    /\ HoldsData(chunks, last.cpos)

\* C5: for every z outside [0, SUBCHUNK_DEPTH * NUM_SUBCHUNKS), negative z
\* included, Chunk get and set return a BoundsError: no panic, no access to an
\* in-range layer, no change of the chunk.
VerticalBoundsEnforced ==
    \A c \in Chunks, f \in SectionField :
        \A x \in 0..(CHUNK_WIDTH - 1), y \in 0..(CHUNK_HEIGHT - 1), z \in OutsideZs :
            /\ Chunk_get_field(c, f, <<x, y, z>>) = Err(OutOfBounds(<<x, y, z>>))
            /\ \A v \in FieldValues(f) :
                  Chunk_set_field(c, f, <<x, y, z>>, v)
                      = [self |-> c, res |-> Err(OutOfBounds(<<x, y, z>>))]

\* a setter was refused for a negative z on a chunk that holds data
SetBelowChunk ==
    /\ last.op = "set" /\ last.lvl = "below" /\ last.res = "Bounds"
    /\ HoldsData(chunks, last.cpos)

\* C6: unload_chunk(c) followed by load_chunk(c), both without a failure of the
\* file system, succeed and yield a chunk in which every field reads at every
\* position what it read before the unload.
PersistenceRoundTrip ==
    \A cp \in ResidentChunks :
        LET u == unload_chunk(chunks, files, cp, "none", 0)
            l == load_chunk(u.chunks, u.files, cp, "none")
        IN  /\ u.res.ok /\ ~is_chunk_at_pos(u.chunks, cp)
            /\ l.res.ok /\ is_chunk_at_pos(l.chunks, cp)
            /\ SameReads(unwrap(l.chunks[cp]), unwrap(chunks[cp]))

\* a chunk holding data has been loaded back from its file
LoadedData ==
    last.op = "load_chunk" /\ last.res = "Ok" /\ HoldsData(chunks, last.cpos)

\* C7: writing a field's default where the Subchunk slot or the field's Section
\* is absent returns Ok and leaves the chunk as it was: nothing is allocated.
DefaultWriteAllocatesNothing ==
    /\ \A c \in Chunks, f \in SectionField :
          \A x \in WideXs, y \in WideYs, z \in 0..(CHUNK_DEPTH - 1) :
              (SubchunkAbsent(c, <<x, y, z>>) \/ SectionAbsent(c, f, <<x, y, z>>))
                  => Chunk_set_field(c, f, <<x, y, z>>, Default(f))
                         = [self |-> c, res |-> Ok(Unit)]
    /\ \A f \in SectionField, p \in GlobalPositions :
          Level(chunks, f, p) \in {"subchunk", "section"}
              => LET r == World_set_field(chunks, f, p, Default(f)) IN
                 r.res = Ok(Unit) /\ r.chunks = chunks

\* a default value was written where the field's Section is absent
DefaultWrittenToAbsentSection ==
    last.op = "set" /\ last.val = 0 /\ last.lvl = "section" /\ last.res = "Ok"

\* C8: where the Subchunk covering p is absent, a non-default write followed by
\* a default write of the same field at p leaves the chunk as it was before
\* both: Section and Subchunk slot are absent again.
ReclaimRestoresChunk ==
    \A c \in Chunks, f \in SectionField, p \in LocalPositions :
        SubchunkAbsent(c, p) =>
            \A v \in NonDefault(f) :
                LET r1 == Chunk_set_field(c, f, p, v)
                    r2 == Chunk_set_field(r1.self, f, p, Default(f))
                IN  /\ r1.res.ok /\ ~SubchunkAbsent(r1.self, p)
                    /\ r2.res.ok /\ SubchunkAbsent(r2.self, p)
                    /\ r2.self = c

\* a default write has removed the only value of a chunk
ReclaimHappened ==
    /\ last.op = "set" /\ last.val = 0 /\ last.old # 0 /\ last.res = "Ok"
    /\ chunks[last.cpos] = Some(Chunk_default)

\* C9: canonical sparse form: no allocated Section holds only default values
\* and no present Subchunk has all its field slots absent.
CanonicalSparseForm ==
    \A cp \in ResidentChunks, i \in 1..NUM_SUBCHUNKS :
        LET slot == unwrap(chunks[cp]).subchunks[i] IN
        is_some(slot) =>
            /\ \E f \in SectionField : is_some(unwrap(slot).sections[f])
            /\ \A f \in SectionField :
                  is_some(unwrap(slot).sections[f]) =>
                      \E p \in SubPositions : unwrap(unwrap(slot).sections[f]).data[p] # 0

\* two successful writes have left a Subchunk with one Section present and one absent
PartlyAllocatedSubchunk ==
    /\ last.op = "set" /\ last.res = "Ok" /\ nsets >= 2
    /\ \E i \in 1..NUM_SUBCHUNKS :
          LET slot == unwrap(chunks[last.cpos]).subchunks[i] IN
          /\ is_some(slot)
          /\ \E f, g \in SectionField :
                is_some(unwrap(slot).sections[f]) /\ is_none(unwrap(slot).sections[g])

\* C10: a successful World set at a position of chunk C marks C and exactly its
\* 4 horizontal neighbours dirty, resident or not; a set that fails marks nothing.
DirtyMarking ==
    [][last'.op = "set" =>
          LET cp == last'.cpos
              marked == {cp, <<cp[1] - 1, cp[2]>>, <<cp[1] + 1, cp[2]>>,
                         <<cp[1], cp[2] - 1>>, <<cp[1], cp[2] + 1>>}
          IN  IF last'.res = "Ok" THEN dirty' = dirty \cup marked ELSE dirty' = dirty]_vars

\* C11: consume_dirty returns each coordinate marked since the previous consume
\* and still resident exactly once, omits the coordinates whose chunk is not
\* resident, and empties the dirty set: a consume right after returns nothing.
ConsumeDirtyDrains ==
    [][last'.op = "consume_dirty" =>
          /\ dirty' = {}
          /\ \A i, j \in 1..Len(last'.ret) : last'.ret[i] = last'.ret[j] => i = j
          /\ Range(last'.ret) = {p \in dirty : p \in DOMAIN chunks /\ chunks[p] # None}
          /\ last.op = "consume_dirty" => last'.ret = <<>>]_vars

\* a consume has returned a coordinate while a chunk written to file is not resident
ConsumedAfterUnload ==
    /\ last.op = "consume_dirty" /\ Len(last.ret) >= 1 /\ dirty = {}
    /\ \E c \in ChunkPositions :
          ~is_chunk_at_pos(chunks, c) /\ is_some(files[file_name(c)])

\* C12: unload_chunk removes the chunk from the map only after its byte stream
\* is encoded: whenever unload_chunk has returned an Encode error the chunk is
\* still resident.
EncodeFailureKeepsChunk ==
    (last.op = "unload_chunk" /\ last.res = "Encode") => is_chunk_at_pos(chunks, last.cpos)

\* C13: unload_chunk at a coordinate with no resident chunk returns the
\* ChunkUnloaded access error, writes and truncates no file, and leaves the
\* resident chunks as they were.
UnloadOfAbsentChunk ==
    \A cp \in ChunkPositions \ ResidentChunks : \A fault \in UnloadFaults :
        unload_chunk(chunks, files, cp, fault, 0)
            = [chunks |-> chunks, files |-> files,
               res |-> Err([variant |-> "Access", cause |-> "ChunkUnloaded", pos |-> cp])]

\* an unload was refused at a coordinate whose file holds bytes
UnloadRefusedOverFile ==
    /\ last.op = "unload_chunk" /\ last.res = "Access"
    /\ ~is_chunk_at_pos(chunks, last.cpos)
    /\ is_some(files[file_name(last.cpos)])
    /\ Len(unwrap(files[file_name(last.cpos)])) > 0

\* C14: load_chunk at a coordinate with a resident chunk returns
\* ChunkAlreadyLoaded without reading the file, and the resident chunk keeps
\* its contents: the persisted copy does not replace it.
LoadOverResidentChunk ==
    \A cp \in ResidentChunks : \A fault \in LoadFaults :
        load_chunk(chunks, files, cp, fault)
            = [chunks |-> chunks,
               res |-> Err([variant |-> "ChunkOverwrite", cause |-> "ChunkAlreadyLoaded",
                            pos |-> cp])]

\* a load was refused over a resident chunk that reads otherwise than its file
LoadRefusedOverNewerChunk ==
    /\ last.op = "load_chunk" /\ last.res = "ChunkOverwrite"
    /\ is_chunk_at_pos(chunks, last.cpos)
    /\ is_some(files[file_name(last.cpos)])
    /\ LET d == decode_from_slice(unwrap(files[file_name(last.cpos)])) IN
       d.ok /\ ~SameReads(d.val, unwrap(chunks[last.cpos]))

\* C15: a load_chunk that fails on a missing or unreadable file (Io) or on a
\* truncated or malformed stream (Decode) inserts nothing: the coordinate stays
\* non-resident and the other chunks are unchanged; a truncated stream is
\* always rejected.
FailedLoadInsertsNothing ==
    /\ \A cp \in ChunkPositions \ ResidentChunks : \A fault \in LoadFaults :
          LET r == load_chunk(chunks, files, cp, fault) IN
          /\ ~r.res.ok => r.chunks = chunks /\ r.res.err.variant \in {"Io", "Decode"}
          /\ r.res.ok =>
                /\ fault = "none" /\ is_some(files[file_name(cp)])
                /\ decode_from_slice(unwrap(files[file_name(cp)])).ok
                /\ \A other \in ChunkPositions \ {cp} : r.chunks[other] = chunks[other]
          /\ (fault = "read" \/ is_none(files[file_name(cp)])) =>
                r.res = Err([variant |-> "Io", cause |-> "read", pos |-> cp])
    /\ \A c \in Chunks :
          LET bytes == encode_to_vec(c) IN
          \A n \in 0..(Len(bytes) - 1) : ~decode_from_slice(SubSeq(bytes, 1, n)).ok

\* a load has failed on a truncated stream, next to a resident chunk
LoadOfTruncatedFile ==
    /\ last.op = "load_chunk" /\ last.res = "Decode"
    /\ ~is_chunk_at_pos(chunks, last.cpos)
    /\ ResidentChunks # {}

\* every World get and set at a position inside chunk c returns an error
AllAccessFails(cs, c) ==
    \A f \in SectionField, p \in GlobalPositions :
        block_to_chunk_pos(p) = c =>
            /\ ~World_get_field(cs, f, p).ok
            /\ \A v \in FieldValues(f) : ~World_set_field(cs, f, p, v).res.ok

\* C16: after a successful unload_chunk(c) chunk c is not resident and every
\* World get and set inside c returns an error, and a chunk that is not
\* resident becomes resident only by a successful load_chunk or add_empty_chunk
\* at its coordinate.
UnloadedUntilReloaded ==
    [][\A c \in ChunkPositions :
          /\ (last'.op = "unload_chunk" /\ last'.res = "Ok" /\ last'.cpos = c)
                => ~is_chunk_at_pos(chunks', c) /\ AllAccessFails(chunks', c)
          /\ ~is_chunk_at_pos(chunks, c) =>
                \/ ~is_chunk_at_pos(chunks', c) /\ AllAccessFails(chunks', c)
                \/ /\ last'.op \in {"load_chunk", "add_empty_chunk"}
                   /\ last'.res = "Ok" /\ last'.cpos = c]_vars

\* a setter was refused inside a chunk that has been unloaded to its file
SetAfterUnload ==
    /\ last.op = "set" /\ last.res = "ChunkAccess"
    /\ ~is_chunk_at_pos(chunks, last.cpos)
    /\ is_some(files[file_name(last.cpos)])
    /\ decode_from_slice(unwrap(files[file_name(last.cpos)])).ok

\* C17: coordinate inverse law: for every global position p, negative x and y
\* included, chunk_to_block_pos(block_to_chunk_pos(p)) + global_to_local_pos(p) = p.
CoordinateInverseLaw ==
    last.op = "block_to_chunk_pos" =>
        LET origin == chunk_to_block_pos(last.ret)
            local == global_to_local_pos(last.arg)
        IN  <<origin[1] + local[1], origin[2] + local[2], origin[3] + local[3]>> = last.arg

\* block_to_chunk_pos was called with negative x and y, x not a multiple of the width
ConvertedNegativePosition ==
    /\ last.op = "block_to_chunk_pos"
    /\ last.arg[1] < 0 /\ last.arg[2] < 0 /\ last.arg[1] % CHUNK_WIDTH # 0
    /\ last.ret[1] < 0

\* C18: the x and y of global_to_local_pos(p) lie in [0, CHUNK_WIDTH) and
\* [0, CHUNK_HEIGHT), also for negative input, and its z is p.z unchanged.
LocalPositionInRange ==
    last.op = "global_to_local_pos" =>
        /\ last.ret[1] \in 0..(CHUNK_WIDTH - 1)
        /\ last.ret[2] \in 0..(CHUNK_HEIGHT - 1)
        /\ last.ret[3] = last.arg[3]

\* global_to_local_pos was called with negative x, y and z, x not a multiple of the width
LocalisedNegativePosition ==
    /\ last.op = "global_to_local_pos"
    /\ last.arg[1] < 0 /\ last.arg[2] < 0 /\ last.arg[3] < 0
    /\ last.arg[1] % CHUNK_WIDTH # 0

\* C19: block_offsets(pos) returns the 6 axis neighbours of pos without those
\* whose z lies outside [0, CHUNK_DEPTH): every returned position has
\* 0 <= z < CHUNK_DEPTH.
BlockOffsetsFiltered ==
    last.op = "block_offsets" =>
        LET neighbours ==
                [i \in 1..6 |-> <<last.arg[1] + BLOCK_OFFSETS[i][1],
                                  last.arg[2] + BLOCK_OFFSETS[i][2],
                                  last.arg[3] + BLOCK_OFFSETS[i][3]>>]
            legal(p) == 0 <= p[3] /\ p[3] < CHUNK_DEPTH
        IN  /\ \A i \in 1..Len(last.ret) : legal(last.ret[i])
            /\ last.ret = SelectSeq(neighbours, legal)

\* |a - b| of two i32, as a u32: the difference of an i32 below zero and one
\* at or above it does not fit an i32, so it is summed digit by digit
AbsDiff(a, b) ==
    LET hi == IF a >= b THEN a ELSE b
        lo == IF a >= b THEN b ELSE a
        neg == -(lo + 1)
        s1 == (hi % LIMB) + (neg % LIMB) + 1
    IN  IF lo >= 0 \/ hi < 0 THEN u32_from_nat(hi - lo)
        ELSE <<s1 % LIMB, (hi \div LIMB) + (neg \div LIMB) + (s1 \div LIMB)>>

\* Chebyshev distance of two chunk coordinates, as a u32
Chebyshev(c, d) ==
    LET dx == AbsDiff(c[1], d[1])
        dy == AbsDiff(c[2], d[2])
    IN  IF u32_lt(dx, dy) THEN dy ELSE dx

\* C20: positions_in_square(origin, r) yields exactly the chunk coordinates
\* within Chebyshev distance r of origin, each once, (2r+1)^2 of them, for
\* every radius r of a u32; radius 0 yields exactly the origin.
PositionsInSquareExact ==
    last.op = "positions_in_square" =>
        LET origin == <<last.arg[1], last.arg[2]>>
            radius == last.arg[3]
            small == ~u32_lt(u32_from_nat(MaxRadius), radius)
            r == u32_as_nat(radius)
        IN  /\ last.res = "Ok"
            /\ \A i, j \in 1..Len(last.ret) : last.ret[i] = last.ret[j] => i = j
            /\ origin \in Range(last.ret)
            /\ \A i \in 1..Len(last.ret) :
                  ~u32_lt(radius, Chebyshev(last.ret[i], origin))
            /\ radius = u32_from_nat(0) => last.ret = <<origin>>
            /\ small =>
                  /\ Len(last.ret) = (2 * r + 1) * (2 * r + 1)
                  /\ Range(last.ret) =
                        {c \in ((origin[1] - r)..(origin[1] + r))
                                   \X ((origin[2] - r)..(origin[2] + r)) : TRUE}

\* p comes before q when x is compared first, then y, then z
LexLess(p, q) ==
    \/ p[1] < q[1]
    \/ p[1] = q[1] /\ p[2] < q[2]
    \/ p[1] = q[1] /\ p[2] = q[2] /\ p[3] < q[3]

\* C21: chunk_coords(c) yields every block position of chunk c exactly once,
\* CHUNK_WIDTH * CHUNK_HEIGHT * CHUNK_DEPTH positions, x outermost, then y,
\* then z innermost; every yielded p has block_to_chunk_pos(p) = c, and
\* chunk_coords((0, 0)) yields the local positions.
ChunkCoordsEnumerateChunk ==
    last.op = "chunk_coords" =>
        /\ Len(last.ret) = CHUNK_WIDTH * CHUNK_HEIGHT * CHUNK_DEPTH
        /\ \A i \in 1..(Len(last.ret) - 1) : LexLess(last.ret[i], last.ret[i + 1])
        /\ \A i \in 1..Len(last.ret) :
              /\ block_to_chunk_pos(last.ret[i]) = last.arg
              /\ last.ret[i][3] \in 0..(CHUNK_DEPTH - 1)
        /\ Range(last.ret) =
              {p \in ((last.arg[1] * CHUNK_WIDTH)..((last.arg[1] + 1) * CHUNK_WIDTH - 1))
                       \X ((last.arg[2] * CHUNK_HEIGHT)..((last.arg[2] + 1) * CHUNK_HEIGHT - 1))
                       \X (0..(CHUNK_DEPTH - 1)) : TRUE}
        /\ last.arg = <<0, 0>> => Range(last.ret) = LocalPositions

\* a chunk left of and below the origin was enumerated, through a step in y
\* that restarts z and a step in x that restarts y
ChunkCoordsOfNegativeChunk ==
    /\ last.op = "chunk_coords"
    /\ last.arg[1] < 0 /\ last.arg[2] < 0
    /\ \E i \in 1..(Len(last.ret) - 1) :
          /\ last.ret[i][1] = last.ret[i + 1][1]
          /\ last.ret[i][2] < last.ret[i + 1][2]
          /\ last.ret[i][3] > last.ret[i + 1][3]
    /\ \E i \in 1..(Len(last.ret) - 1) :
          /\ last.ret[i][1] < last.ret[i + 1][1]
          /\ last.ret[i][2] > last.ret[i + 1][2]

\* the block-type field
BlockField == 1

\* C22: Subchunk::is_empty() is true iff every field's slot is absent, so a
\* Subchunk slot collapses only when no field holds data: a non-default value
\* written to a field other than the block type, at a position whose
\* block-type field is default, is read back after the write.
EmptyMeansNoFieldHoldsData ==
    /\ \A sc \in Subchunks :
          Subchunk_is_empty(sc) <=>
              \A f \in SectionField, p \in SubPositions :
                  Subchunk_get_field(sc, f, p) = Ok(Default(f))
    /\ \A f \in SectionField \ {BlockField}, p \in GlobalPositions : \A v \in NonDefault(f) :
          LET r == World_set_field(chunks, f, p, v) IN
          (r.res.ok /\ World_get_field(chunks, BlockField, p) = Ok(Default(BlockField))) =>
              /\ World_get_field(r.chunks, f, p) = Ok(v)
              /\ World_get_field(r.chunks, BlockField, p) = Ok(Default(BlockField))
              /\ is_some(SlotOf(unwrap(r.chunks[block_to_chunk_pos(p)]), p))

\* a Subchunk without block types holds another field's data after a write
DataWithoutBlockType ==
    /\ last.op = "set" /\ last.res = "Ok" /\ last.val # 0
    /\ \E c \in Chunks, f \in SectionField \ {BlockField}, p \in LocalPositions :
          /\ SectionAbsent(c, BlockField, p)
          /\ Chunk_get_field(c, f, p) \in {Ok(v) : v \in NonDefault(f)}

\* C23: the field value codec: from_u64(to_u64(v)) = v for every u8 v;
\* to_u64(false) = 0, to_u64(true) = 1, from_u64(0) = false and
\* from_u64(n) = true for every nonzero n; a boolean getter decodes a stored 0
\* as false and a stored nonzero as true.
FieldCodecLaws ==
    /\ last.op = "u8_to_u64" => u8_from_u64(last.ret) = last.arg
    /\ last.op = "u8_from_u64" =>
          (last.arg < U8_MODULUS => last.ret = last.arg /\ u8_to_u64(last.ret) = last.arg)
    /\ last.op = "bool_to_u64" => last.ret = (IF last.arg THEN 1 ELSE 0)
    /\ last.op = "bool_from_u64" => (last.ret <=> last.arg # 0)
    /\ last.op = "get_bool" => last.ret = Ok(last.arg # 0)

\* a u64 other than 0 and 1 was decoded as a boolean
DecodedLargeBool ==
    last.op = "bool_from_u64" /\ last.arg > 1 /\ last.ret = TRUE

\* C24: a successful load_chunk(pos) marks neither pos nor any other chunk
\* coordinate dirty: the dirty set is the same before and after the load.
LoadMarksNothing ==
    [][(last'.op = "load_chunk" /\ last'.res = "Ok" /\ chunks' # chunks) => dirty' = dirty]_vars

\* a chunk was loaded and its coordinate is not dirty
LoadedAndClean ==
    /\ last.op = "load_chunk" /\ last.res = "Ok"
    /\ is_chunk_at_pos(chunks, last.cpos)
    /\ last.cpos \notin dirty

\* C25: the reserved Missing block definition, used for unknown or invalid
\* block-type tags, is not visible, collidable, not breakable and not
\* replaceable.
MissingDefinitionFlags ==
    (\/ last.op = "definition" /\ last.arg = Block_Missing
     \/ last.op = "definition_of_tag" /\ last.arg \in Block_Length..(U8_MODULUS - 1)) =>
        /\ ~is_visible(last.ret)
        /\ is_collidable(last.ret)
        /\ ~is_breakable(last.ret)
        /\ ~is_replaceable(last.ret)

\* every block position of the chunk coordinates of the World
AllBlockPositions == UNION {Range(chunk_coords(c)) : c \in ChunkPositions}

\* the place a global position is stored at
Resolve(pos) ==
    <<block_to_chunk_pos(pos), subchunk_index(pos[3]),
      local_to_sub(global_to_local_pos(pos))>>

\* two distinct global positions never resolve to the same place
ResolveIsInjective == \A p, q \in AllBlockPositions : p # q => Resolve(p) # Resolve(q)

\* C26: a successful set(F, p, v) changes only the value read for F at p: every
\* other field at p, every field at every other position of the same chunk and
\* every other resident chunk read as before; two distinct global positions
\* never resolve to the same (chunk, subchunk index, sub-local position).
SetChangesOnlyItsTarget ==
    /\ \A f \in SectionField, p \in GlobalPositions : \A v \in FieldValues(f) :
          LET r == World_set_field(chunks, f, p, v) IN
          r.res.ok =>
              /\ \A g \in SectionField, q \in Range(chunk_coords(block_to_chunk_pos(p))) :
                    <<g, q>> # <<f, p>> =>
                        World_get_field(r.chunks, g, q) = World_get_field(chunks, g, q)
              /\ \A c \in ChunkPositions :
                    c # block_to_chunk_pos(p) => r.chunks[c] = chunks[c]
    /\ ResolveIsInjective

\* a write succeeded and the chunk it went to holds data at two places
WriteBesideOtherData ==
    /\ last.op = "set" /\ last.res = "Ok" /\ last.val # 0
    /\ is_chunk_at_pos(chunks, last.cpos)
    /\ \E f, g \in SectionField, p, q \in Range(chunk_coords(last.cpos)) :
          /\ <<f, p>> # <<g, q>>
          /\ World_get_field(chunks, f, p) # Ok(Default(f))
          /\ World_get_field(chunks, g, q) # Ok(Default(g))

\* C27: a Subchunk or Chunk set that returns a BoundsError (a write whose x or
\* y lies outside the volume, for example) leaves the state unchanged: no
\* Section and no Subchunk absent before the call is allocated after it.
FailedSetChangesNothing ==
    /\ \A c \in Chunks, f \in SectionField : \A v \in FieldValues(f) :
          \A p \in WideXs \X WideYs \X (0..(CHUNK_DEPTH - 1)) :
              LET r == Chunk_set_field(c, f, p, v) IN
              ~r.res.ok => r.self = c
    /\ \A sc \in Subchunks, f \in SectionField : \A v \in FieldValues(f) :
          \A p \in WideXs \X WideYs \X (0..(SUBCHUNK_DEPTH - 1)) :
              LET r == Subchunk_set_field(sc, f, p, v) IN
              ~r.res.ok => r.self = sc

\* global positions around the World's chunk coordinates, z around the chunk
ClassifiedPositions ==
    ((-2 * CHUNK_WIDTH)..(2 * CHUNK_WIDTH - 1)) \X ((-CHUNK_HEIGHT)..(CHUNK_HEIGHT - 1))
        \X ((-1)..CHUNK_DEPTH)

\* the outcome the classification gives a get or set at a global position
Classified(cs, pos) ==
    IF ~is_chunk_at_pos(cs, block_to_chunk_pos(pos)) THEN "ChunkAccess"
    ELSE IF pos[3] < 0 \/ pos[3] >= CHUNK_DEPTH THEN "Bounds"
    ELSE "Ok"

\* C28: a World get or set returns AccessError::ChunkAccess iff the owning
\* chunk is not resident (also when z is out of range), AccessError::Bounds iff
\* the chunk is resident and z is outside [0, chunk_depth), and Ok otherwise;
\* no global x or y, negative included, causes a Bounds error.
OutcomeClassification ==
    \A f \in SectionField, p \in ClassifiedPositions :
        /\ Outcome(World_get_field(chunks, f, p)) = Classified(chunks, p)
        /\ \A v \in FieldValues(f) :
              Outcome(World_set_field(chunks, f, p, v).res) = Classified(chunks, p)

\* a set was refused for its z by a resident chunk while another chunk
\* coordinate has no chunk
BoundsRefusedBesideAbsentChunk ==
    /\ last.op = "set" /\ last.res = "Bounds" /\ last.lvl \in {"below", "above"}
    /\ is_chunk_at_pos(chunks, last.cpos)
    /\ \E c \in ChunkPositions : ~is_chunk_at_pos(chunks, c)

\* C29: when unload_chunk(pos) on a resident chunk returns an Io error
\* (directory creation, file creation or write failed), the chunk is no longer
\* resident afterwards: a failed disk write loses the in-memory chunk.
IoFailureLosesChunk ==
    (last.op = "unload_chunk" /\ last.res = "Io") =>
        /\ ~is_chunk_at_pos(chunks, last.cpos)
        /\ AllAccessFails(chunks, last.cpos)

\* a write failed after some bytes: the chunk is in neither the map nor a readable file
ChunkLostByFailedWrite ==
    /\ last.op = "unload_chunk" /\ last.res = "Io"
    /\ ~is_chunk_at_pos(chunks, last.cpos)
    /\ is_some(files[file_name(last.cpos)])
    /\ Len(unwrap(files[file_name(last.cpos)])) > 0
    /\ ~decode_from_slice(unwrap(files[file_name(last.cpos)])).ok

\* C30: a failed unload_chunk(pos) never destroys an earlier persisted copy of
\* the chunk: when a decodable file of pos exists and unload_chunk(pos) returns
\* an error, load_chunk(pos) still decodes the earlier contents.
FailedUnloadKeepsEarlierCopy ==
    [][\A c \in ChunkPositions :
          (/\ last'.op = "unload_chunk" /\ last'.cpos = c /\ last'.res # "Ok"
           /\ is_some(files[file_name(c)])
           /\ decode_from_slice(unwrap(files[file_name(c)])).ok)
          => /\ is_some(files'[file_name(c)])
             /\ decode_from_slice(unwrap(files'[file_name(c)]))
                    = decode_from_slice(unwrap(files[file_name(c)]))]_vars

\* chunk coordinates with one- and two-digit components of both signs
NameCoords == ((-12)..12) \X ((-12)..12)

\* distinct coordinates have distinct file names
NamesDistinct ==
    Cardinality({file_name(c) : c \in NameCoords}) = Cardinality(NameCoords)

\* C31: persisted files are keyed injectively by chunk coordinate: distinct
\* coordinates, negative components included, have distinct file names, so
\* unload_chunk(a) never creates or overwrites the file of another coordinate
\* b, and load_chunk(b) returns what the file of b holds, never data written
\* by unloading a.
FilesKeyedByCoordinate ==
    [][/\ NamesDistinct
       /\ \A a \in ChunkPositions :
             (last'.op = "unload_chunk" /\ last'.cpos = a) =>
                 \A b \in ChunkPositions \ {a} :
                     /\ file_name(b) # file_name(a)
                     /\ files'[file_name(b)] = files[file_name(b)]
       /\ \A b \in ChunkPositions :
             (last'.op = "load_chunk" /\ last'.cpos = b /\ last'.res = "Ok") =>
                 /\ chunks'[b] = Some(decode_from_slice(unwrap(files[file_name(b)])).val)
                 /\ \A a \in ChunkPositions \ {b} : chunks'[a] = chunks[a]]_vars

\* two coordinates, one of them negative, have been unloaded to two files
\* with different contents
TwoChunksPersisted ==
    /\ last.op = "unload_chunk" /\ last.res = "Ok"
    /\ \A c \in ChunkPositions : is_some(files[file_name(c)])
    /\ \E a, b \in ChunkPositions :
          /\ a[1] < 0
          /\ decode_from_slice(unwrap(files[file_name(a)])).ok
          /\ decode_from_slice(unwrap(files[file_name(b)])).ok
          /\ files[file_name(a)] # files[file_name(b)]

\* C32: Block::from(u64) is a total checked mapping: every integer that is not
\* the tag of a defined block type (Air, Grass, Dirt, Stone, Bedrock), every
\* value of 256 or more included, maps to Block::Missing, a tag of a defined
\* block type maps to that type, and the Length sentinel is never yielded.
BlockFromIsChecked ==
    last.op = "Block::from" =>
        /\ last.ret # Block_Length
        /\ last.arg \in Block_Air..Block_Bedrock => last.ret = last.arg
        /\ last.arg \notin Block_Air..Block_Bedrock => last.ret = Block_Missing

====
